---- MODULE Spec2Model ----
(***************************************************************************)
(* The gaze-tracking session of gazer: GazeTracker (app/models/tracker.py) *)
(* and the GazeEstimator it owns (app/models/gaze_estimator.py).           *)
(*                                                                         *)
(* Numbers.  Every coordinate (landmark, screen target, prediction) is a   *)
(* Python float.  The model holds a coordinate in fixed point, Scale units *)
(* per pixel, with Scale = 3 * 2^MaxTracks, so that the mean of three      *)
(* coordinates (the centroid), the 1.5/0.5 weighting and MaxTracks         *)
(* successive halvings (the smoothing with alpha = 0.5) are all exact.     *)
(* The float NaN and Python's None are two values outside that range.      *)
(*                                                                         *)
(* Regressors.  The five sklearn regressors are abstract: their fitted     *)
(* parameters are not state, and predict of each is a fixed function of    *)
(* its input (PupilFinal, HeadFinal, ValidationModelPredict).              *)
(*                                                                         *)
(* Callers.  The tracker is driven by the Socket.IO handlers of            *)
(* app/routes/websocket_handlers.py and by direct calls of its methods     *)
(* (as the tests make).  last records the tracker method called by a step  *)
(* (none for a handler that calls none), handled the event of a handler    *)
(* step (none for a direct call), sid the client that sent the event.      *)
(* Every client's events reach the one tracker that main.py constructs at  *)
(* module level and hands to register_handlers.                            *)
(***************************************************************************)
EXTENDS Integers, Sequences, FiniteSets, TLC

VARIABLES
    state,              \* GazeTracker._state
    is_calibrated,      \* GazeEstimator.is_calibrated
    is_validated,       \* GazeEstimator.is_validated
    calibration_data,   \* GazeTracker._calibration_data
    validation_data,    \* GazeTracker._validation_data
    position_history,   \* GazeTracker._position_history
    n_emitted,          \* points pushed into the history since it was last cleared
    last,               \* the last call: its name, argument, outcome and point
    handled,            \* the last Socket.IO event handled, and what it emitted
    sid                 \* the client whose event was handled (request.sid)

vars == <<state, is_calibrated, is_validated, calibration_data,
          validation_data, position_history, n_emitted, last, handled,
          sid>>

\* The session proper: everything but the record of the last call.
session == <<state, is_calibrated, is_validated, calibration_data,
             validation_data, position_history>>

-----------------------------------------------------------------------------
(* Bounds of the model *)

\* Points pushed into the history between two clears of it.
MaxTracks == 11
\* Calibration samples accumulated (lifecycle specification).
MaxCalib == 10
\* Validation samples accumulated (lifecycle specification).
MaxVal == 5
\* Calibration samples accumulated (specification with the wide inputs).
MaxCalibWide == 3
\* Validation samples accumulated (specification with the wide inputs).
MaxValWide == 5

-----------------------------------------------------------------------------
(* Program constants *)

\* calibrate: len(calibration_points) < 10 raises ValueError
MinCalibrationPoints == 10
\* train_validation: len(clean_data) < 5 skips the training
MinValidationPoints == 5
\* config.tracking.max_history_points
max_history_points == 10
\* config.calibration.validation_distance_threshold, in pixels
validation_distance_threshold == 100
\* config.tracking.smoothing_factor = 0.5 = smoothing_num / smoothing_den
smoothing_num == 1
smoothing_den == 2
\* config.model.pupil_weight = 1.5 and head_weight = 0.5, over weight_den
pupil_weight_num == 3
head_weight_num == 1
weight_den == 2

-----------------------------------------------------------------------------
(* Numbers *)

Scale == 3 * 2^MaxTracks
Px(v) == v * Scale

\* float("nan"): every comparison with it is false
NaN == -1
\* Python's None
None == -2

Abs(v) == IF v < 0 THEN 0 - v ELSE v

\* abs(a - b) < t on floats
AbsDiffLess(a, b, t) == a # NaN /\ b # NaN /\ Abs(a - b) < t

-----------------------------------------------------------------------------
(* TrackerState *)

IDLE == "IDLE"
CALIBRATING == "CALIBRATING"
VALIDATING == "VALIDATING"
TRACKING == "TRACKING"
TrackerState == {IDLE, CALIBRATING, VALIDATING, TRACKING}

-----------------------------------------------------------------------------
(* GazeEstimator *)

\* CalibrationPoint.__init__ and __post_init__: a centroid that is None is
\* computed from the three landmarks, one that is given is kept.
CalibrationPoint(screen_x, screen_y, left_x, left_y, right_x, right_y, nose_x, nose_y, centroid_x, centroid_y) ==
    [screen_x |-> screen_x, screen_y |-> screen_y,
     left_x |-> left_x, left_y |-> left_y,
     right_x |-> right_x, right_y |-> right_y,
     nose_x |-> nose_x, nose_y |-> nose_y,
     centroid_x |-> IF centroid_x = None
                    THEN (left_x + right_x + nose_x) \div 3 ELSE centroid_x,
     centroid_y |-> IF centroid_y = None
                    THEN (left_y + right_y + nose_y) \div 3 ELSE centroid_y]

\* calibrate with the minimum compared by <= : ten points are refused.
calibrate_off_by_one(calibration_points) ==
    IF Len(calibration_points) <= MinCalibrationPoints
    THEN [raised |-> "ValueError", is_calibrated |-> is_calibrated]
    ELSE [raised |-> "", is_calibrated |-> TRUE]

\* calibrate marking the ensemble untrained before it refuses the data.
calibrate_clears_flag_on_failure(calibration_points) ==
    IF Len(calibration_points) < MinCalibrationPoints
    THEN [raised |-> "ValueError", is_calibrated |-> FALSE]
    ELSE [raised |-> "", is_calibrated |-> TRUE]

\* GazeEstimator.calibrate: the outcome (the exception raised, "" for none)
\* and the value of is_calibrated afterwards.
calibrate(calibration_points) ==
    IF Len(calibration_points) < MinCalibrationPoints
    THEN [raised |-> "ValueError", is_calibrated |-> is_calibrated]
    ELSE [raised |-> "", is_calibrated |-> TRUE]

\* A row DataFrame.dropna() keeps: no field is NaN or None.
IsClean(v) ==
    \A f \in {"screen_x", "screen_y", "predicted_x", "predicted_y"} :
        v[f] # NaN /\ v[f] # None

\* train_validation that assigns the flag from the count on every call, so a
\* skipped training clears it.
train_validation_resets_flag(data) ==
    Len(SelectSeq(data, IsClean)) >= MinValidationPoints

\* train_validation with the minimum compared by <= : five clean rows are
\* skipped.
train_validation_off_by_one(data) ==
    IF Len(data) = 0
    THEN is_validated
    ELSE IF Len(SelectSeq(data, IsClean)) <= MinValidationPoints
         THEN is_validated
         ELSE TRUE

\* train_validation without the minimum: any non-empty data trains.
train_validation_no_minimum(data) ==
    IF Len(data) = 0 THEN is_validated ELSE TRUE

\* GazeEstimator.train_validation: the value of is_validated afterwards
\* (it never raises).
train_validation(data) ==
    IF Len(data) = 0
    THEN is_validated
    ELSE LET clean_data == SelectSeq(data, IsClean)
         IN  IF Len(clean_data) < MinValidationPoints
             THEN is_validated
             ELSE TRUE

\* pupil_stacking_model.predict(pupil_base_model.predict(pupil_data))
PupilFinal(pupil_data) ==
    <<(pupil_data.left_x + pupil_data.right_x) \div 2,
      (pupil_data.left_y + pupil_data.right_y) \div 2>>

\* head_stacking_model.predict(head_base_model.predict(head_data))
HeadFinal(head_data) ==
    <<(head_data.nose_x + head_data.centroid_x) \div 2,
      (head_data.nose_y + head_data.centroid_y) \div 2>>

\* pupil_weight * pupil_final + head_weight * head_final
Combined(pupil_data, head_data) ==
    LET p == PupilFinal(pupil_data)
        h == HeadFinal(head_data)
    IN  <<(pupil_weight_num * p[1] + head_weight_num * h[1]) \div weight_den,
          (pupil_weight_num * p[2] + head_weight_num * h[2]) \div weight_den>>

\* validation_model.predict: a fitted linear map, here the doubling
ValidationModelPredict(point) == <<2 * point[1], 2 * point[2]>>

\* predict_raw without the is_calibrated guard.
predict_raw_unguarded(pupil_data, head_data) ==
    [raised |-> "", point |-> Combined(pupil_data, head_data)]

\* predict_raw applying the validation correction, as predict does.
predict_raw_corrects(pupil_data, head_data) ==
    IF ~is_calibrated
    THEN [raised |-> "RuntimeError", point |-> <<>>]
    ELSE [raised |-> "",
          point |-> IF is_validated
                    THEN ValidationModelPredict(Combined(pupil_data, head_data))
                    ELSE Combined(pupil_data, head_data)]

\* GazeEstimator.predict_raw
predict_raw(pupil_data, head_data) ==
    IF ~is_calibrated
    THEN [raised |-> "RuntimeError", point |-> <<>>]
    ELSE [raised |-> "", point |-> Combined(pupil_data, head_data)]

\* GazeEstimator.predict
predict(pupil_data, head_data) ==
    IF ~is_calibrated
    THEN [raised |-> "RuntimeError", point |-> <<>>]
    ELSE LET combined == Combined(pupil_data, head_data)
         IN  [raised |-> "",
              point |-> IF is_validated
                        THEN ValidationModelPredict(combined)
                        ELSE combined]

-----------------------------------------------------------------------------
(* GazeTracker *)

\* The record of a call.
Call(op, arg, ret, point) == [op |-> op, arg |-> arg, ret |-> ret, point |-> point]

\* No method of the tracker was called.
NoCall == Call("", <<>>, "None", <<>>)

\* data[key] for every key of keys raises no KeyError
HasKeys(data, keys) == keys \subseteq DOMAIN data

\* The keys add_calibration_point reads
CalibrationKeys ==
    {"screenX", "screenY", "leftX", "leftY", "rightX", "rightY",
     "noseX", "noseY"}

\* The keys track and predict_for_validation read
LandmarkKeys == {"leftX", "leftY", "rightX", "rightY", "noseX", "noseY"}

\* The keys handle_validation_data reads
ValidationKeys == {"screen_x", "screen_y", "predicted_x", "predicted_y"}

\* dict.get(key, default)
Get(data, key, default) == IF key \in DOMAIN data THEN data[key] ELSE default

\* CalibrationPoint.from_dict: the exception raised ("" for none) and the
\* point.  The landmarks are subscripted, the screen target and the
\* centroid are read with get.
from_dict(data) ==
    IF ~HasKeys(data, LandmarkKeys)
    THEN [raised |-> "KeyError", point |-> <<>>]
    ELSE [raised |-> "",
          point |-> CalibrationPoint(Get(data, "screenX", 0),
                                     Get(data, "screenY", 0),
                                     data.leftX, data.leftY,
                                     data.rightX, data.rightY,
                                     data.noseX, data.noseY,
                                     Get(data, "centroidX", None),
                                     Get(data, "centroidY", None))]

\* The pupil DataFrame track and predict_for_validation build
PupilData(data) ==
    [left_x |-> data.leftX, left_y |-> data.leftY,
     right_x |-> data.rightX, right_y |-> data.rightY]

\* The head DataFrame track and predict_for_validation build
HeadData(data) ==
    [nose_x |-> data.noseX, nose_y |-> data.noseY,
     centroid_x |-> (data.leftX + data.rightX + data.noseX) \div 3,
     centroid_y |-> (data.leftY + data.rightY + data.noseY) \div 3]

\* A plain list in place of the bounded deque.
DequeAppend_unbounded(history, point) == Append(history, point)

\* deque(maxlen=max_history_points).append
DequeAppend(history, point) ==
    IF Len(history) >= max_history_points
    THEN Tail(history) \o <<point>>
    ELSE Append(history, point)

\* The blend of _smooth_position for one axis
Blend(prev, current) ==
    (smoothing_num * prev + (smoothing_den - smoothing_num) * current)
        \div smoothing_den

\* _smooth_position reading the oldest entry, history[0], as prev.
SmoothedPoint_oldest_prev(history, current) ==
    IF Len(history) = 0
    THEN current
    ELSE LET prev == history[1]
         IN  <<Blend(prev[1], current[1]), Blend(prev[2], current[2])>>

\* GazeTracker._smooth_position: the point it returns
SmoothedPoint(history, current) ==
    IF Len(history) = 0
    THEN current
    ELSE LET prev == history[Len(history)]
         IN  <<Blend(prev[1], current[1]), Blend(prev[2], current[2])>>

\* _smooth_position seeding an empty history with a (0, 0) placeholder
\* before the first point.
SmoothedHistory_seeds_origin(history, current) ==
    IF Len(history) = 0
    THEN <<<<0, 0>>, current>>
    ELSE DequeAppend(history, SmoothedPoint(history, current))

\* GazeTracker._smooth_position: the history afterwards
SmoothedHistory(history, current) ==
    DequeAppend(history, SmoothedPoint(history, current))

\* A tracker constructed in the calibrating phase.
Init_starts_calibrating ==
    /\ state = CALIBRATING
    /\ is_calibrated = FALSE
    /\ is_validated = FALSE
    /\ calibration_data = <<>>
    /\ validation_data = <<>>
    /\ position_history = <<>>
    /\ n_emitted = 0
    /\ last = Call("__init__", <<>>, "None", <<>>)
    /\ handled = [event |-> "", payload |-> <<>>, emitted |-> <<>>, raised |-> ""]
    /\ sid = ""

\* GazeTracker.__init__
Init ==
    /\ state = IDLE
    /\ is_calibrated = FALSE
    /\ is_validated = FALSE
    /\ calibration_data = <<>>
    /\ validation_data = <<>>
    /\ position_history = <<>>
    /\ n_emitted = 0
    /\ last = Call("__init__", <<>>, "None", <<>>)
    /\ handled = [event |-> "", payload |-> <<>>, emitted |-> <<>>, raised |-> ""]
    /\ sid = ""

\* start_calibration that keeps the samples of the run before.
start_calibration_keeps_data ==
    /\ state' = CALIBRATING
    /\ last' = Call("start_calibration", <<>>, "None", <<>>)
    /\ UNCHANGED <<calibration_data, is_calibrated, is_validated,
                   validation_data, position_history, n_emitted>>

\* GazeTracker.start_calibration
start_calibration ==
    /\ state' = CALIBRATING
    /\ calibration_data' = <<>>
    /\ last' = Call("start_calibration", <<>>, "None", <<>>)
    /\ UNCHANGED <<is_calibrated, is_validated, validation_data,
                   position_history, n_emitted>>

\* add_calibration_point putting the new sample first.
add_calibration_point_prepends(data) ==
    LET centroid_x == (data.leftX + data.rightX + data.noseX) \div 3
        centroid_y == (data.leftY + data.rightY + data.noseY) \div 3
        point == CalibrationPoint(data.screenX, data.screenY,
                                  data.leftX, data.leftY,
                                  data.rightX, data.rightY,
                                  data.noseX, data.noseY,
                                  centroid_x, centroid_y)
    IN  IF ~HasKeys(data, CalibrationKeys)
        THEN /\ last' = Call("add_calibration_point", data, "KeyError", <<>>)
             /\ UNCHANGED <<state, is_calibrated, is_validated,
                            calibration_data, validation_data,
                            position_history, n_emitted>>
        ELSE /\ calibration_data' = <<point>> \o calibration_data
             /\ last' = Call("add_calibration_point", data, "None", <<>>)
             /\ UNCHANGED <<state, is_calibrated, is_validated,
                            validation_data, position_history, n_emitted>>

\* add_calibration_point that starts the calibrating phase by itself.
add_calibration_point_enters_calibrating(data) ==
    LET centroid_x == (data.leftX + data.rightX + data.noseX) \div 3
        centroid_y == (data.leftY + data.rightY + data.noseY) \div 3
        point == CalibrationPoint(data.screenX, data.screenY,
                                  data.leftX, data.leftY,
                                  data.rightX, data.rightY,
                                  data.noseX, data.noseY,
                                  centroid_x, centroid_y)
    IN  IF ~HasKeys(data, CalibrationKeys)
        THEN /\ last' = Call("add_calibration_point", data, "KeyError", <<>>)
             /\ UNCHANGED <<state, is_calibrated, is_validated,
                            calibration_data, validation_data,
                            position_history, n_emitted>>
        ELSE /\ state' = CALIBRATING
             /\ calibration_data' = Append(calibration_data, point)
             /\ last' = Call("add_calibration_point", data, "None", <<>>)
             /\ UNCHANGED <<is_calibrated, is_validated,
                            validation_data, position_history, n_emitted>>

\* GazeTracker.add_calibration_point
add_calibration_point(data) ==
    LET centroid_x == (data.leftX + data.rightX + data.noseX) \div 3
        centroid_y == (data.leftY + data.rightY + data.noseY) \div 3
        point == CalibrationPoint(data.screenX, data.screenY,
                                  data.leftX, data.leftY,
                                  data.rightX, data.rightY,
                                  data.noseX, data.noseY,
                                  centroid_x, centroid_y)
    IN  IF ~HasKeys(data, CalibrationKeys)
        THEN /\ last' = Call("add_calibration_point", data, "KeyError", <<>>)
             /\ UNCHANGED <<state, is_calibrated, is_validated,
                            calibration_data, validation_data,
                            position_history, n_emitted>>
        ELSE /\ calibration_data' = Append(calibration_data, point)
             /\ last' = Call("add_calibration_point", data, "None", <<>>)
             /\ UNCHANGED <<state, is_calibrated, is_validated,
                            validation_data, position_history, n_emitted>>

\* finish_calibration clearing the accumulator on both paths (a finally).
finish_calibration_always_clears ==
    LET r == calibrate(calibration_data)
    IN  /\ is_calibrated' = r.is_calibrated
        /\ calibration_data' = <<>>
        /\ state' = IF r.raised = "" THEN VALIDATING ELSE state
        /\ last' = Call("finish_calibration", <<>>,
                        IF r.raised = "" THEN "True" ELSE "False", <<>>)
        /\ UNCHANGED <<is_validated, validation_data,
                       position_history, n_emitted>>

\* GazeTracker.finish_calibration
finish_calibration ==
    LET r == calibrate(calibration_data)
    IN  IF r.raised = ""
        THEN /\ is_calibrated' = r.is_calibrated
             /\ state' = VALIDATING
             /\ calibration_data' = <<>>
             /\ last' = Call("finish_calibration", <<>>, "True", <<>>)
             /\ UNCHANGED <<is_validated, validation_data,
                            position_history, n_emitted>>
        ELSE /\ is_calibrated' = r.is_calibrated
             /\ last' = Call("finish_calibration", <<>>, "False", <<>>)
             /\ UNCHANGED <<state, calibration_data, is_validated,
                            validation_data, position_history, n_emitted>>

\* start_validation that keeps the samples of the run before.
start_validation_keeps_data ==
    /\ state' = VALIDATING
    /\ last' = Call("start_validation", <<>>, "None", <<>>)
    /\ UNCHANGED <<validation_data, is_calibrated, is_validated,
                   calibration_data, position_history, n_emitted>>

\* GazeTracker.start_validation
start_validation ==
    /\ state' = VALIDATING
    /\ validation_data' = <<>>
    /\ last' = Call("start_validation", <<>>, "None", <<>>)
    /\ UNCHANGED <<is_calibrated, is_validated, calibration_data,
                   position_history, n_emitted>>

\* The filter with "and" in place of "or".
WithinThreshold_and(v) ==
    LET threshold == Px(validation_distance_threshold)
    IN  /\ AbsDiffLess(v.predicted_x, v.screen_x, threshold)
        /\ AbsDiffLess(v.predicted_y, v.screen_y, threshold)

\* The filter of add_validation_point
WithinThreshold(v) ==
    LET threshold == Px(validation_distance_threshold)
    IN  \/ AbsDiffLess(v.predicted_x, v.screen_x, threshold)
        \/ AbsDiffLess(v.predicted_y, v.screen_y, threshold)

\* GazeTracker.add_validation_point
add_validation_point(v) ==
    /\ validation_data' = IF WithinThreshold(v)
                          THEN Append(validation_data, v)
                          ELSE validation_data
    /\ last' = Call("add_validation_point", v, "None", <<>>)
    /\ UNCHANGED <<state, is_calibrated, is_validated, calibration_data,
                   position_history, n_emitted>>

\* finish_validation returning early on no data, before the phase is set.
finish_validation_no_transition ==
    IF Len(validation_data) = 0
    THEN /\ last' = Call("finish_validation", <<>>, "False", <<>>)
         /\ UNCHANGED <<state, is_calibrated, is_validated, calibration_data,
                        validation_data, position_history, n_emitted>>
    ELSE /\ is_validated' = train_validation(validation_data)
         /\ state' = TRACKING
         /\ validation_data' = <<>>
         /\ last' = Call("finish_validation", <<>>, "True", <<>>)
         /\ UNCHANGED <<is_calibrated, calibration_data,
                        position_history, n_emitted>>

\* GazeTracker.finish_validation
finish_validation ==
    IF Len(validation_data) = 0
    THEN /\ state' = TRACKING
         /\ last' = Call("finish_validation", <<>>, "False", <<>>)
         /\ UNCHANGED <<is_calibrated, is_validated, calibration_data,
                        validation_data, position_history, n_emitted>>
    ELSE /\ is_validated' = train_validation(validation_data)
         /\ state' = TRACKING
         /\ validation_data' = <<>>
         /\ last' = Call("finish_validation", <<>>, "True", <<>>)
         /\ UNCHANGED <<is_calibrated, calibration_data,
                        position_history, n_emitted>>

\* track returning the prediction it was given, not the smoothed point it
\* pushed.
track_returns_current(data) ==
    LET gaze_point == IF HasKeys(data, LandmarkKeys)
                      THEN predict(PupilData(data), HeadData(data))
                      ELSE [raised |-> "KeyError", point |-> <<>>]
    IN  IF gaze_point.raised # ""
        THEN /\ last' = Call("track", data, gaze_point.raised, <<>>)
             /\ UNCHANGED <<state, is_calibrated, is_validated,
                            calibration_data, validation_data,
                            position_history, n_emitted>>
        ELSE /\ position_history' =
                    SmoothedHistory(position_history, gaze_point.point)
             /\ n_emitted' = n_emitted + 1
             /\ last' = Call("track", data, "point", gaze_point.point)
             /\ UNCHANGED <<state, is_calibrated, is_validated,
                            calibration_data, validation_data>>

\* GazeTracker.track
track(data) ==
    LET gaze_point == IF HasKeys(data, LandmarkKeys)
                      THEN predict(PupilData(data), HeadData(data))
                      ELSE [raised |-> "KeyError", point |-> <<>>]
    IN  IF gaze_point.raised # ""
        THEN /\ last' = Call("track", data, gaze_point.raised, <<>>)
             /\ UNCHANGED <<state, is_calibrated, is_validated,
                            calibration_data, validation_data,
                            position_history, n_emitted>>
        ELSE /\ position_history' =
                    SmoothedHistory(position_history, gaze_point.point)
             /\ n_emitted' = n_emitted + 1
             /\ last' = Call("track", data, "point",
                             SmoothedPoint(position_history, gaze_point.point))
             /\ UNCHANGED <<state, is_calibrated, is_validated,
                            calibration_data, validation_data>>

\* predict_for_validation passing its prediction through _smooth_position.
predict_for_validation_smooths(data) ==
    LET prediction == IF HasKeys(data, LandmarkKeys)
                      THEN predict_raw(PupilData(data), HeadData(data))
                      ELSE [raised |-> "KeyError", point |-> <<>>]
    IN  IF prediction.raised # ""
        THEN /\ last' = Call("predict_for_validation", data,
                             prediction.raised, <<>>)
             /\ UNCHANGED <<state, is_calibrated, is_validated,
                            calibration_data, validation_data,
                            position_history, n_emitted>>
        ELSE /\ position_history' =
                    SmoothedHistory(position_history, prediction.point)
             /\ last' = Call("predict_for_validation", data, "point",
                             SmoothedPoint(position_history, prediction.point))
             /\ UNCHANGED <<state, is_calibrated, is_validated,
                            calibration_data, validation_data, n_emitted>>

\* GazeTracker.predict_for_validation
predict_for_validation(data) ==
    LET prediction == IF HasKeys(data, LandmarkKeys)
                      THEN predict_raw(PupilData(data), HeadData(data))
                      ELSE [raised |-> "KeyError", point |-> <<>>]
    IN  /\ last' = IF prediction.raised # ""
                   THEN Call("predict_for_validation", data,
                             prediction.raised, <<>>)
                   ELSE Call("predict_for_validation", data,
                             "point", prediction.point)
        /\ UNCHANGED <<state, is_calibrated, is_validated, calibration_data,
                       validation_data, position_history, n_emitted>>

\* reset that forgets to clear the position history.
reset_keeps_history ==
    /\ is_calibrated' = FALSE
    /\ is_validated' = FALSE
    /\ state' = IDLE
    /\ calibration_data' = <<>>
    /\ validation_data' = <<>>
    /\ last' = Call("reset", <<>>, "None", <<>>)
    /\ UNCHANGED <<position_history, n_emitted>>

\* GazeTracker.reset (GazeEstimator.reset re-runs __init__: both flags false)
reset ==
    /\ is_calibrated' = FALSE
    /\ is_validated' = FALSE
    /\ state' = IDLE
    /\ calibration_data' = <<>>
    /\ validation_data' = <<>>
    /\ position_history' = <<>>
    /\ n_emitted' = 0
    /\ last' = Call("reset", <<>>, "None", <<>>)

\* CalibrationPoint(...) called on its own, the centroid given or None.
call_CalibrationPoint(data, centroid_x, centroid_y) ==
    /\ last' = Call("CalibrationPoint",
                    [data |-> data, centroid_x |-> centroid_x,
                     centroid_y |-> centroid_y],
                    "CalibrationPoint",
                    CalibrationPoint(data.screenX, data.screenY,
                                     data.leftX, data.leftY,
                                     data.rightX, data.rightY,
                                     data.noseX, data.noseY,
                                     centroid_x, centroid_y))
    /\ UNCHANGED <<state, is_calibrated, is_validated, calibration_data,
                   validation_data, position_history, n_emitted>>

\* CalibrationPoint.from_dict(data) called on its own.
call_from_dict(data) ==
    LET made == from_dict(data)
    IN  /\ last' = IF made.raised # ""
                   THEN Call("CalibrationPoint.from_dict", data,
                             made.raised, <<>>)
                   ELSE Call("CalibrationPoint.from_dict", data,
                             "CalibrationPoint", made.point)
        /\ UNCHANGED <<state, is_calibrated, is_validated, calibration_data,
                       validation_data, position_history, n_emitted>>

-----------------------------------------------------------------------------
(* Socket.IO handlers (register_handlers) *)

\* A JSON text: json.dumps(value), or a text json.loads rejects.
Json(value) == [valid |-> TRUE, value |-> value]
InvalidJson == [valid |-> FALSE, value |-> <<>>]

\* json.loads: the exception raised ("" for none) and the value
JsonLoads(text) ==
    IF text.valid
    THEN [raised |-> "", value |-> text.value]
    ELSE [raised |-> "JSONDecodeError", value |-> <<>>]

\* emit(name, payload)
Emit(name, payload) == [name |-> name, payload |-> payload]

\* The record of a handled event: its name, its argument, what the handler
\* emitted, and the exception that left the handler ("" for none).
Handled(event, payload, emitted, raised) ==
    [event |-> event, payload |-> payload, emitted |-> emitted,
     raised |-> raised]

\* A step that is a direct call, not an event.
NoEvent == Handled("", <<>>, <<>>, "")

\* No client: a step that is a direct call.
NoClient == ""

\* The connected clients
Clients == {"client1", "client2"}

\* A method of the tracker called outside the handlers.
DirectCall == handled' = NoEvent /\ sid' = NoClient

\* The tracker the handlers of a client act on: register_handlers closes
\* every handler over the tracker it was given, the one main.py constructs.
SessionOf(client) == session

\* A handler that returns without calling the tracker.
NoTrackerCall ==
    /\ last' = NoCall
    /\ UNCHANGED <<state, is_calibrated, is_validated, calibration_data,
                   validation_data, position_history, n_emitted>>

\* handle_calibration_data answering a missing field with calibrationError.
handle_calibration_data_reports_error(text) ==
    LET point_data == JsonLoads(text)
    IN  /\ IF point_data.raised # ""
           THEN NoTrackerCall
           ELSE add_calibration_point(point_data.value)
        /\ handled' =
               Handled("calibrationDataOneByOneUpdate", text,
                       IF last'.ret = "KeyError"
                       THEN <<Emit("calibrationError", "Missing field")>>
                       ELSE <<>>,
                       "")

\* handle_calibration_data: JSONDecodeError and KeyError are caught.
handle_calibration_data(text) ==
    LET point_data == JsonLoads(text)
    IN  /\ IF point_data.raised # ""
           THEN NoTrackerCall
           ELSE add_calibration_point(point_data.value)
        /\ handled' = Handled("calibrationDataOneByOneUpdate", text, <<>>, "")

\* handle_calibration_status emitting modelTrained whatever
\* finish_calibration returned.
handle_calibration_status_always_trained(status) ==
    IF status
    THEN /\ finish_calibration
         /\ handled' = Handled("calibrationStatus", status,
                               <<Emit("modelTrained", <<>>)>>, "")
    ELSE /\ NoTrackerCall
         /\ handled' = Handled("calibrationStatus", status, <<>>, "")

\* handle_calibration_status
handle_calibration_status(status) ==
    IF status
    THEN /\ finish_calibration
         /\ handled' =
                Handled("calibrationStatus", status,
                        IF last'.ret = "True"
                        THEN <<Emit("modelTrained", <<>>)>>
                        ELSE <<Emit("calibrationError", "Insufficient data")>>,
                        "")
    ELSE /\ NoTrackerCall
         /\ handled' = Handled("calibrationStatus", status, <<>>, "")

\* handle_validation_data: the handler reads the four keys itself;
\* JSONDecodeError and KeyError are caught.
handle_validation_data(text) ==
    LET point_data == JsonLoads(text)
    IN  /\ IF point_data.raised # ""
           THEN NoTrackerCall
           ELSE IF ~HasKeys(point_data.value, ValidationKeys)
                THEN NoTrackerCall
                ELSE add_validation_point(point_data.value)
        /\ handled' = Handled("validationData", text, <<>>, "")

\* handle_validation_status emitting only when finish_validation returned
\* True.
handle_validation_status_emits_on_success(status) ==
    IF status
    THEN /\ finish_validation
         /\ handled' = Handled("validationStatus", status,
                               IF last'.ret = "True"
                               THEN <<Emit("validationStatus", <<>>)>>
                               ELSE <<>>,
                               "")
    ELSE /\ NoTrackerCall
         /\ handled' = Handled("validationStatus", status, <<>>, "")

\* handle_validation_status
handle_validation_status(status) ==
    IF status
    THEN /\ finish_validation
         /\ handled' = Handled("validationStatus", status,
                               <<Emit("validationStatus", <<>>)>>, "")
    ELSE /\ NoTrackerCall
         /\ handled' = Handled("validationStatus", status, <<>>, "")

\* handle_real_time_data without the is_calibrated test before track
handle_real_time_data_no_guard(text) ==
    LET tracking_data == JsonLoads(text)
    IN  IF tracking_data.raised # ""
        THEN /\ NoTrackerCall
             /\ handled' = Handled("realTimeData", text, <<>>, "")
        ELSE /\ track(tracking_data.value)
             /\ handled' =
                    IF last'.ret = "point"
                    THEN Handled("realTimeData", text,
                                 <<Emit("data_response", Json(last'.point))>>,
                                 "")
                    ELSE IF last'.ret = "RuntimeError"
                         THEN Handled("realTimeData", text, <<>>, "")
                         ELSE Handled("realTimeData", text, <<>>, last'.ret)

\* handle_real_time_data: JSONDecodeError and RuntimeError are caught, a
\* KeyError of track is not.
handle_real_time_data(text) ==
    LET tracking_data == JsonLoads(text)
    IN  IF tracking_data.raised # ""
        THEN /\ NoTrackerCall
             /\ handled' = Handled("realTimeData", text, <<>>, "")
        ELSE IF ~is_calibrated
             THEN /\ NoTrackerCall
                  /\ handled' = Handled("realTimeData", text, <<>>, "")
             ELSE /\ track(tracking_data.value)
                  /\ handled' =
                         IF last'.ret = "point"
                         THEN Handled("realTimeData", text,
                                      <<Emit("data_response",
                                             Json(last'.point))>>, "")
                         ELSE IF last'.ret = "RuntimeError"
                              THEN Handled("realTimeData", text, <<>>, "")
                              ELSE Handled("realTimeData", text, <<>>,
                                           last'.ret)

\* handle_reset
handle_reset ==
    /\ reset
    /\ handled' = Handled("reset", <<>>, <<Emit("resetComplete", <<>>)>>, "")

-----------------------------------------------------------------------------
(* Inputs *)

\* A calibration event, in pixels
CalibrationInput(sx, sy, lx, ly, rx, ry, nx, ny) ==
    [screenX |-> Px(sx), screenY |-> Px(sy),
     leftX |-> Px(lx), leftY |-> Px(ly),
     rightX |-> Px(rx), rightY |-> Px(ry),
     noseX |-> Px(nx), noseY |-> Px(ny)]

\* A real-time event, in pixels
LandmarkInput(lx, ly, rx, ry, nx, ny) ==
    [leftX |-> Px(lx), leftY |-> Px(ly),
     rightX |-> Px(rx), rightY |-> Px(ry),
     noseX |-> Px(nx), noseY |-> Px(ny)]

\* A validation event; a coordinate is a pixel count or NaN
Coord(v) == IF v = NaN THEN NaN ELSE Px(v)
ValidationInput(sx, sy, px, py) ==
    [screen_x |-> Coord(sx), screen_y |-> Coord(sy),
     predicted_x |-> Coord(px), predicted_y |-> Coord(py)]

CalA == CalibrationInput(500, 300, 8, 8, 12, 12, 10, 10)
CalB == CalibrationInput(100, 200, 7, 9, 14, 11, 10, 13)
\* The raw prediction is (20, 20) pixels for LandA and (40, 40) for LandB.
LandA == LandmarkInput(8, 8, 12, 12, 10, 10)
LandB == LandmarkInput(16, 16, 24, 24, 20, 20)

ValNear == ValidationInput(500, 300, 520, 310)    \* both axes within 100
ValXOnly == ValidationInput(500, 300, 599, 500)   \* x within, y beyond
ValYOnly == ValidationInput(500, 300, 300, 201)   \* y within, x beyond
ValEdge == ValidationInput(500, 300, 600, 200)    \* both exactly 100 away
ValFar == ValidationInput(500, 300, 700, 100)     \* both beyond
ValNaN == ValidationInput(500, 300, NaN, 310)     \* x is NaN, y within

\* Events with a key missing
CalNoNose == [k \in CalibrationKeys \ {"noseX"} |-> CalA[k]]
LandNoNose == [k \in LandmarkKeys \ {"noseX"} |-> LandA[k]]
ValNoPredicted == [k \in ValidationKeys \ {"predicted_y"} |-> ValNear[k]]

\* Dictionaries for CalibrationPoint.from_dict: the landmarks of a small
\* grid, the screen target present or absent, and each centroid key absent,
\* null, or a number of the caller's.
PointLandmarks ==
    {CalibrationInput(500, 300, lx, ly, 12, 12, nx, 10) :
        lx \in {6, 9}, ly \in {6, 9}, nx \in {9, 12}}

WithCentroid(data, cx, cy) ==
    [k \in DOMAIN data \cup {"centroidX", "centroidY"} |->
        IF k = "centroidX" THEN cx ELSE IF k = "centroidY" THEN cy ELSE data[k]]

PointDicts ==
    PointLandmarks
    \cup {[k \in LandmarkKeys |-> data[k]] : data \in PointLandmarks}
    \cup {WithCentroid(data, cx, cy) :
            data \in PointLandmarks, cx \in {None, 0}, cy \in {None, 0}}
    \cup {CalNoNose}

CalibrationTexts == {Json(CalA), Json(CalNoNose), InvalidJson}
ValidationTexts == {Json(ValNear), Json(ValFar), Json(ValNoPredicted), InvalidJson}
RealTimeTexts == {Json(LandA), Json(LandNoNose), InvalidJson}

CalibrationInputs == {CalA}
ValidationInputs == {ValNear, ValFar}
LandmarkInputs == {LandA}

CalibrationInputsWide == {CalA, CalB}
ValidationInputsWide == {ValXOnly, ValYOnly, ValEdge, ValNaN}
LandmarkInputsWide == {LandB}

-----------------------------------------------------------------------------
(* Specifications *)

\* The whole lifecycle by direct calls, one input of each kind: deep enough
\* for a successful calibration, a trained validation model and a history
\* that evicts.
Next ==
    \/ start_calibration /\ DirectCall
    \/ \E data \in CalibrationInputs :
           /\ Len(calibration_data) < MaxCalib
           /\ add_calibration_point(data)
           /\ DirectCall
    \/ finish_calibration /\ DirectCall
    \/ start_validation /\ DirectCall
    \/ \E v \in ValidationInputs :
           /\ Len(validation_data) < MaxVal
           /\ add_validation_point(v)
           /\ DirectCall
    \/ finish_validation /\ DirectCall
    \/ \E data \in LandmarkInputs :
           n_emitted < MaxTracks /\ track(data) /\ DirectCall
    \/ \E data \in LandmarkInputs :
           predict_for_validation(data) /\ DirectCall
    \/ reset /\ DirectCall

Spec == Init /\ [][Next]_vars

\* The session as the server drives it for one client: the tracker of
\* main.py receives the six inbound events, with well-formed and malformed
\* payloads; track is also called directly.
NextEvents ==
    \/ \E text \in CalibrationTexts :
           /\ Len(calibration_data) < MaxCalib
           /\ handle_calibration_data(text)
           /\ sid' = "client1"
    \/ \E status \in BOOLEAN :
           handle_calibration_status(status) /\ sid' = "client1"
    \/ \E text \in ValidationTexts :
           /\ Len(validation_data) < MaxVal
           /\ handle_validation_data(text)
           /\ sid' = "client1"
    \/ \E status \in BOOLEAN :
           handle_validation_status(status) /\ sid' = "client1"
    \/ \E text \in RealTimeTexts :
           /\ n_emitted < MaxTracks
           /\ handle_real_time_data(text)
           /\ sid' = "client1"
    \/ handle_reset /\ sid' = "client1"
    \/ \E data \in LandmarkInputs :
           n_emitted < MaxTracks /\ track(data) /\ DirectCall

SpecEvents == Init /\ [][NextEvents]_vars

\* The server with two clients connected: each inbound event comes from
\* either of them.
NextClients ==
    \/ \E client \in Clients, text \in CalibrationTexts :
           /\ Len(calibration_data) < MaxCalib
           /\ handle_calibration_data(text)
           /\ sid' = client
    \/ \E client \in Clients, status \in BOOLEAN :
           handle_calibration_status(status) /\ sid' = client
    \/ \E client \in Clients, text \in ValidationTexts :
           /\ Len(validation_data) < MaxVal
           /\ handle_validation_data(text)
           /\ sid' = client
    \/ \E client \in Clients, status \in BOOLEAN :
           handle_validation_status(status) /\ sid' = client
    \/ \E client \in Clients, text \in RealTimeTexts :
           /\ n_emitted < MaxTracks
           /\ handle_real_time_data(text)
           /\ sid' = client
    \/ \E client \in Clients : handle_reset /\ sid' = client

SpecClients == Init /\ [][NextClients]_vars

\* The three ways a CalibrationPoint is made, each called on its own.
NextPoints ==
    \/ \E data \in PointLandmarks, cx \in {None, 0}, cy \in {None, 0} :
           call_CalibrationPoint(data, cx, cy) /\ DirectCall
    \/ \E data \in PointDicts : call_from_dict(data) /\ DirectCall
    \/ \E data \in CalibrationInputsWide :
           /\ Len(calibration_data) < MaxCalibWide
           /\ add_calibration_point(data)
           /\ DirectCall

SpecPoints == Init /\ [][NextPoints]_vars

\* The direct calls on the wide inputs, with short accumulators.
NextWide ==
    \/ start_calibration /\ DirectCall
    \/ \E data \in CalibrationInputsWide :
           /\ Len(calibration_data) < MaxCalibWide
           /\ add_calibration_point(data)
           /\ DirectCall
    \/ finish_calibration /\ DirectCall
    \/ start_validation /\ DirectCall
    \/ \E v \in ValidationInputsWide :
           /\ Len(validation_data) < MaxValWide
           /\ add_validation_point(v)
           /\ DirectCall
    \/ finish_validation /\ DirectCall
    \/ \E data \in LandmarkInputsWide :
           n_emitted < MaxTracks /\ track(data) /\ DirectCall
    \/ \E data \in LandmarkInputsWide :
           predict_for_validation(data) /\ DirectCall
    \/ reset /\ DirectCall

SpecWide == Init /\ [][NextWide]_vars

-----------------------------------------------------------------------------
(* Properties *)

\* C1: in phase CALIBRATING with fewer than 10 accumulated samples,
\* finish_calibration returns False, the accumulator holds the same samples
\* in the same order afterwards and the phase is still CALIBRATING.
C1_FailedFinishKeepsSamples ==
    [][(/\ last'.op = "finish_calibration"
        /\ state = CALIBRATING
        /\ Len(calibration_data) < 10)
       => (/\ last'.ret = "False"
           /\ calibration_data' = calibration_data
           /\ state' = CALIBRATING)]_vars

\* C1 witness: a failed finish_calibration on three samples, not all alike.
C1_Witness ==
    /\ last.op = "finish_calibration"
    /\ last.ret = "False"
    /\ state = CALIBRATING
    /\ Len(calibration_data) = 3
    /\ calibration_data[1] # calibration_data[2]

\* C2: from any phase, finish_calibration on at least 10 accumulated samples
\* returns True, and afterwards is_calibrated is true, the accumulator is
\* empty and the phase is VALIDATING.
C2_FinishCalibrationSucceeds ==
    [][(/\ last'.op = "finish_calibration"
        /\ Len(calibration_data) >= 10)
       => (/\ last'.ret = "True"
           /\ is_calibrated'
           /\ calibration_data' = <<>>
           /\ state' = VALIDATING)]_vars

\* C2 witness: finish_calibration has just succeeded.
C2_Witness ==
    /\ last.op = "finish_calibration"
    /\ last.ret = "True"
    /\ is_calibrated
    /\ calibration_data = <<>>
    /\ state = VALIDATING

\* C3: is_calibrated is true exactly when a finish_calibration has succeeded
\* since construction or the last reset; while it is false predict and
\* predict_raw (and so track and predict_for_validation) raise RuntimeError
\* and return no point, and while it is true they return a point.
C3_PredictNeedsCalibration ==
    /\ [](\A data \in LandmarkInputs \cup LandmarkInputsWide :
            LET p == predict(PupilData(data), HeadData(data))
                r == predict_raw(PupilData(data), HeadData(data))
            IN  IF is_calibrated
                THEN /\ p.raised = "" /\ Len(p.point) = 2
                     /\ r.raised = "" /\ Len(r.point) = 2
                ELSE /\ p.raised = "RuntimeError" /\ p.point = <<>>
                     /\ r.raised = "RuntimeError" /\ r.point = <<>>)
    /\ [](~is_calibrated
            => last.op \in {"__init__", "reset"} \/ last.ret # "point")
    /\ [][/\ is_calibrated' =
                IF last'.op = "reset"
                THEN FALSE
                ELSE \/ is_calibrated
                     \/ last'.op = "finish_calibration" /\ last'.ret = "True"
          /\ last'.op \in {"track", "predict_for_validation"}
                => IF is_calibrated
                   THEN last'.ret = "point" /\ Len(last'.point) = 2
                   ELSE last'.ret = "RuntimeError" /\ last'.point = <<>>]_vars

\* C3 witness: track has raised RuntimeError on a session not calibrated.
C3_Witness ==
    /\ last.op = "track"
    /\ last.ret = "RuntimeError"
    /\ last.point = <<>>
    /\ ~is_calibrated
    /\ Len(calibration_data) > 0

\* C4: reset yields the initial session from every state (phase IDLE, both
\* flags false, both accumulators and the history empty), so a second reset
\* changes nothing.
C4_ResetYieldsInitial ==
    [][last'.op = "reset"
       => (/\ state' = IDLE
           /\ ~is_calibrated'
           /\ ~is_validated'
           /\ calibration_data' = <<>>
           /\ validation_data' = <<>>
           /\ position_history' = <<>>
           /\ (last.op = "reset" => session' = session))]_vars

\* C4 witness: the session after a reset.
C4_Witness ==
    /\ last.op = "reset"
    /\ state = IDLE
    /\ ~is_calibrated
    /\ ~is_validated
    /\ calibration_data = <<>>
    /\ validation_data = <<>>
    /\ position_history = <<>>

\* C5: between resets is_calibrated and is_validated are monotone: no call
\* other than reset makes a true flag false.
C5_FlagsMonotone ==
    [][last'.op # "reset"
       => (/\ is_calibrated => is_calibrated'
           /\ is_validated => is_validated')]_vars

\* C5 witness: both flags still true after a finish_calibration that failed.
C5_Witness ==
    /\ last.op = "finish_calibration"
    /\ last.ret = "False"
    /\ is_calibrated
    /\ is_validated

\* C6: the position history never holds more than 10 points, and a push
\* into a full history evicts the oldest entry.
C6_HistoryBounded ==
    /\ [](Len(position_history) <= 10)
    /\ [][(/\ last'.op = "track"
           /\ last'.ret = "point"
           /\ Len(position_history) = 10)
          => position_history' = Tail(position_history) \o <<last'.point>>]_vars

\* C6 witness: an eleventh point has been pushed.
C6_Witness ==
    /\ last.op = "track"
    /\ n_emitted = 11
    /\ Len(position_history) = 10
    /\ position_history[10] = last.point
    /\ position_history[1] # position_history[10]

\* C7: on an empty history the filter emits the raw point and pushes it;
\* otherwise it emits alpha * prev + (1 - alpha) * current per axis (alpha =
\* 1/2), prev being the point pushed last, and pushes what it emits.  Raw
\* points (20, 20) then (40, 40) on an empty history emit (20, 20) then
\* (30, 30).
C7_Smoothing ==
    /\ [][(last'.op = "track" /\ last'.ret = "point")
          => LET current == predict(PupilData(last'.arg),
                                    HeadData(last'.arg)).point
                 emitted == last'.point
                 n == Len(position_history)
             IN  /\ IF n = 0
                    THEN emitted = current
                    ELSE /\ 2 * emitted[1] = position_history[n][1] + current[1]
                         /\ 2 * emitted[2] = position_history[n][2] + current[2]
                 /\ position_history'[Len(position_history')] = emitted]_vars
    /\ []((/\ last.op = "track"
           /\ last.ret = "point"
           /\ n_emitted = 2
           /\ position_history[1] = <<Px(20), Px(20)>>
           /\ predict(PupilData(last.arg), HeadData(last.arg)).point
                = <<Px(40), Px(40)>>)
          => position_history = <<<<Px(20), Px(20)>>, <<Px(30), Px(30)>>>>)

\* C7 witness: raw (20, 20) then raw (40, 40) have been tracked.
C7_Witness ==
    /\ last.op = "track"
    /\ last.point = <<Px(30), Px(30)>>
    /\ position_history = <<<<Px(20), Px(20)>>, <<Px(30), Px(30)>>>>

\* C8: add_validation_point appends the sample exactly when
\* |predicted_x - screen_x| < 100 or |predicted_y - screen_y| < 100, leaves
\* the accumulator alone otherwise, and changes nothing else of the session.
C8_ValidationFilter ==
    [][last'.op = "add_validation_point"
       => LET v == last'.arg
              near_x == /\ v.predicted_x # NaN
                        /\ v.screen_x # NaN
                        /\ v.predicted_x - v.screen_x < Px(100)
                        /\ v.screen_x - v.predicted_x < Px(100)
              near_y == /\ v.predicted_y # NaN
                        /\ v.screen_y # NaN
                        /\ v.predicted_y - v.screen_y < Px(100)
                        /\ v.screen_y - v.predicted_y < Px(100)
          IN  /\ validation_data' = IF near_x \/ near_y
                                    THEN validation_data \o <<v>>
                                    ELSE validation_data
              /\ UNCHANGED <<state, is_calibrated, is_validated,
                             calibration_data, position_history>>]_vars

\* C8 witness: a sample near on one axis only has been appended after one
\* near on the other axis only.
C8_Witness ==
    /\ last.op = "add_validation_point"
    /\ last.arg = ValYOnly
    /\ validation_data = <<ValXOnly, ValYOnly>>

\* C9: finish_validation on an empty validation accumulator sets the phase
\* to TRACKING from any phase, returns False, and leaves is_validated,
\* is_calibrated, the calibration accumulator and the history unchanged.
C9_FinishValidationNoData ==
    [][(last'.op = "finish_validation" /\ validation_data = <<>>)
       => (/\ state' = TRACKING
           /\ last'.ret = "False"
           /\ UNCHANGED <<is_validated, is_calibrated, calibration_data,
                          position_history>>)]_vars

\* C9 witness: finish_validation has returned False on a session that holds
\* calibration samples and a history.
C9_Witness ==
    /\ last.op = "finish_validation"
    /\ last.ret = "False"
    /\ state = TRACKING
    /\ Len(calibration_data) > 0
    /\ Len(position_history) > 0

\* The rows of a validation accumulator that hold no NaN.
C10_CleanCount(data) ==
    Cardinality({i \in 1..Len(data) :
                    /\ data[i].screen_x # NaN /\ data[i].screen_y # NaN
                    /\ data[i].predicted_x # NaN /\ data[i].predicted_y # NaN})

\* C10 as stated: finish_validation on a non-empty validation accumulator
\* empties it, sets the phase to TRACKING and returns True, and is_validated
\* becomes true when at least 5 samples were accumulated.
C10_AsStated ==
    [][(last'.op = "finish_validation" /\ validation_data # <<>>)
       => (/\ validation_data' = <<>>
           /\ state' = TRACKING
           /\ last'.ret = "True"
           /\ (Len(validation_data) >= 5 => is_validated'))]_vars

\* C10 amended: the same, with is_validated becoming true when at least 5 of
\* the accumulated samples are free of NaN.
C10_FinishValidationTrains ==
    [][(last'.op = "finish_validation" /\ validation_data # <<>>)
       => (/\ validation_data' = <<>>
           /\ state' = TRACKING
           /\ last'.ret = "True"
           /\ is_calibrated' = is_calibrated
           /\ (C10_CleanCount(validation_data) >= 5 => is_validated'))]_vars

\* C10 witness: finish_validation has returned True on a session whose
\* correction model is trained.
C10_Witness ==
    /\ last.op = "finish_validation"
    /\ last.ret = "True"
    /\ is_validated
    /\ validation_data = <<>>
    /\ state = TRACKING

C13_StartCalibration ==
    [][last'.op = "start_calibration"
       => (/\ state' = CALIBRATING
           /\ calibration_data' = <<>>
           /\ UNCHANGED <<is_calibrated, is_validated, validation_data,
                          position_history>>)]_vars

\* C13 witness: start_calibration on a validated session that holds
\* validation samples and a history.
C13_Witness ==
    /\ last.op = "start_calibration"
    /\ state = CALIBRATING
    /\ calibration_data = <<>>
    /\ is_calibrated
    /\ is_validated
    /\ Len(validation_data) > 0
    /\ Len(position_history) > 0

\* C14: start_validation sets the phase to VALIDATING and empties the
\* validation accumulator in any phase, whatever it held.
C14_StartValidation ==
    [][last'.op = "start_validation"
       => (/\ state' = VALIDATING
           /\ validation_data' = <<>>)]_vars

\* C14 witness: start_validation on a session that holds calibration samples.
C14_Witness ==
    /\ last.op = "start_validation"
    /\ state = VALIDATING
    /\ validation_data = <<>>
    /\ Len(calibration_data) > 0

\* C15: a newly constructed session is in phase IDLE, neither calibrated nor
\* validated, with no calibration point, no validation sample and an empty
\* history.
C15_InitialState ==
    last.op = "__init__"
        => (/\ state = IDLE
            /\ ~is_calibrated
            /\ ~is_validated
            /\ Len(calibration_data) = 0
            /\ validation_data = <<>>
            /\ position_history = <<>>)

\* C15 witness: the session as constructed.
C15_Witness ==
    /\ last.op = "__init__"
    /\ state = IDLE
    /\ Len(calibration_data) = 0

\* C16: on a calibrated session predict returns the point of predict_raw
\* while is_validated is false and the validation correction of that point
\* while it is true; predict_raw never applies the correction.  For the
\* landmarks LandA the raw point is (20, 20) and its correction (40, 40):
\* predict_for_validation returns the first whatever is_validated is, and
\* the first track on an empty history returns the one or the other.
C16_PredictVersusRaw ==
    /\ is_calibrated
        => \A data \in LandmarkInputs \cup LandmarkInputsWide :
               LET p == predict(PupilData(data), HeadData(data))
                   r == predict_raw(PupilData(data), HeadData(data))
               IN  /\ r.point = Combined(PupilData(data), HeadData(data))
                   /\ p.point = IF is_validated
                                THEN ValidationModelPredict(r.point)
                                ELSE r.point
    /\ (/\ last.op = "predict_for_validation"
        /\ last.ret = "point"
        /\ last.arg = LandA)
        => last.point = <<Px(20), Px(20)>>
    /\ (/\ last.op = "track"
        /\ last.ret = "point"
        /\ last.arg = LandA
        /\ n_emitted = 1)
        => last.point = IF is_validated
                        THEN <<Px(40), Px(40)>>
                        ELSE <<Px(20), Px(20)>>

\* C16 witness: predict_for_validation has returned a point on a validated
\* session.
C16_Witness ==
    /\ last.op = "predict_for_validation"
    /\ last.ret = "point"
    /\ is_validated
    /\ is_calibrated

\* C17: predict_for_validation returns the raw prediction, not smoothed, and
\* leaves the history, both accumulators, the phase and both flags
\* unchanged; the history gains a point only through track.
C17_PredictForValidationFrame ==
    [][/\ last'.op = "predict_for_validation"
            => /\ UNCHANGED <<position_history, calibration_data,
                              validation_data, state, is_calibrated,
                              is_validated>>
               /\ last'.ret = "point"
                    => last'.point = Combined(PupilData(last'.arg),
                                              HeadData(last'.arg))
       /\ (position_history' # position_history /\ position_history' # <<>>)
            => last'.op = "track"]_vars

\* C17 witness: predict_for_validation has returned a point that differs
\* from the newest entry of a non-empty history.
C17_Witness ==
    /\ last.op = "predict_for_validation"
    /\ last.ret = "point"
    /\ Len(position_history) > 0
    /\ last.point # position_history[Len(position_history)]

\* C12 as stated: a track attempted while the ensemble is not calibrated,
\* by a realTimeData event or by a direct call of track, returns no point,
\* emits nothing, raises nothing to its caller and leaves the session
\* unchanged.  (False: track called directly raises RuntimeError.)
C12_AsStated ==
    [][((handled'.event = "realTimeData" \/ last'.op = "track")
        /\ ~is_calibrated)
       => (/\ last'.point = <<>>
           /\ handled'.emitted = <<>>
           /\ handled'.raised = ""
           /\ last'.ret \notin {"RuntimeError", "KeyError"}
           /\ UNCHANGED <<session, n_emitted>>)]_vars

\* C12: a realTimeData event received while the ensemble is not calibrated
\* calls no method of the tracker, emits nothing and lets no error leave
\* the handler, whatever its payload; track called directly while the
\* ensemble is not calibrated raises RuntimeError to its caller and returns
\* no point; both leave the phase, the flags, both accumulators and the
\* position history unchanged.
C12_NotCalibratedTrack ==
    [][/\ (handled'.event = "realTimeData" /\ ~is_calibrated)
          => (/\ last' = NoCall
              /\ handled'.emitted = <<>>
              /\ handled'.raised = ""
              /\ UNCHANGED <<session, n_emitted>>)
       /\ (last'.op = "track" /\ HasKeys(last'.arg, LandmarkKeys)
           /\ ~is_calibrated)
          => (/\ last'.ret = "RuntimeError"
              /\ last'.point = <<>>
              /\ handled'.emitted = <<>>
              /\ UNCHANGED <<session, n_emitted>>)]_vars

\* C12 witness: a well-formed realTimeData event has been handled on a
\* session that is not calibrated and holds calibration samples, and
\* nothing was emitted.
C12_Witness ==
    /\ handled.event = "realTimeData"
    /\ handled.payload = Json(LandA)
    /\ ~is_calibrated
    /\ calibration_data # <<>>
    /\ handled.emitted = <<>>
    /\ last = NoCall

\* C18: a calibrationStatus event with value true calls finish_calibration
\* and emits exactly one event, modelTrained when finish_calibration returned
\* True (the accumulator held at least 10 samples) and calibrationError
\* otherwise; with value false it calls nothing, emits nothing and changes
\* no state.
C18_CalibrationDone ==
    [][/\ (handled'.event = "calibrationStatus" /\ handled'.payload = TRUE)
          => (/\ last'.op = "finish_calibration"
              /\ last'.ret \in {"True", "False"}
              /\ (last'.ret = "True"
                    <=> Len(calibration_data) >= MinCalibrationPoints)
              /\ Len(handled'.emitted) = 1
              /\ handled'.emitted[1].name =
                     IF last'.ret = "True"
                     THEN "modelTrained"
                     ELSE "calibrationError"
              /\ handled'.raised = "")
       /\ (handled'.event = "calibrationStatus" /\ handled'.payload = FALSE)
          => (/\ last' = NoCall
              /\ handled'.emitted = <<>>
              /\ handled'.raised = ""
              /\ UNCHANGED <<session, n_emitted>>)]_vars

\* C18 witness: a calibrationStatus event with value true has trained the
\* ensemble and emitted modelTrained.
C18_Witness ==
    /\ handled.event = "calibrationStatus"
    /\ handled.payload = TRUE
    /\ last.op = "finish_calibration"
    /\ last.ret = "True"
    /\ is_calibrated
    /\ handled.emitted = <<Emit("modelTrained", <<>>)>>

\* C19 as stated: every realTimeData event received while the ensemble is
\* calibrated emits exactly one data_response, whose payload is the point
\* track returned, the newest entry of the history afterwards.  (False: an
\* event whose payload is not JSON, or lacks a landmark field, is answered
\* by nothing.)
C19_AsStated ==
    [][(handled'.event = "realTimeData" /\ is_calibrated)
       => (/\ last'.op = "track"
           /\ last'.ret = "point"
           /\ handled'.emitted = <<Emit("data_response", Json(last'.point))>>
           /\ position_history' # <<>>
           /\ last'.point = position_history'[Len(position_history')])]_vars

\* C19: a realTimeData event received while the ensemble is calibrated,
\* whose payload is JSON with the six landmark fields, emits exactly one
\* data_response within the handling of that event; its payload is the
\* smoothed point track returned, which track appended to the history as
\* its newest entry.  An event whose payload is not JSON or lacks a
\* landmark field emits no data_response and leaves the history as it was.
C19_DataResponse ==
    [][(handled'.event = "realTimeData" /\ is_calibrated)
       => IF /\ handled'.payload.valid
             /\ HasKeys(handled'.payload.value, LandmarkKeys)
          THEN /\ last'.op = "track"
               /\ last'.arg = handled'.payload.value
               /\ last'.ret = "point"
               /\ handled'.emitted =
                      <<Emit("data_response", Json(last'.point))>>
               /\ handled'.raised = ""
               /\ position_history' =
                      DequeAppend(position_history, last'.point)
               /\ last'.point = position_history'[Len(position_history')]
          ELSE /\ handled'.emitted = <<>>
               /\ position_history' = position_history]_vars

\* C19 witness: a realTimeData event has been answered by the smoothed
\* point, on a validated session whose full history has evicted an entry
\* and whose newest entry differs from the one before it.
C19_Witness ==
    /\ handled.event = "realTimeData"
    /\ Len(handled.emitted) = 1
    /\ handled.emitted[1].name = "data_response"
    /\ is_validated
    /\ Len(position_history) = max_history_points
    /\ n_emitted > max_history_points
    /\ handled.emitted[1].payload = Json(position_history[max_history_points])
    /\ position_history[max_history_points]
          # position_history[max_history_points - 1]

\* C20: a validationStatus event with value true calls finish_validation,
\* ends in the phase TRACKING with an empty validation accumulator and emits
\* exactly one validationStatus, whether the accumulator was empty, held
\* fewer than 5 samples or held 5 or more; with value false it calls
\* nothing, emits nothing and changes no state.
C20_ValidationDone ==
    [][/\ (handled'.event = "validationStatus" /\ handled'.payload = TRUE)
          => (/\ last'.op = "finish_validation"
              /\ last'.ret \in {"True", "False"}
              /\ state' = TRACKING
              /\ validation_data' = <<>>
              /\ handled'.emitted = <<Emit("validationStatus", <<>>)>>
              /\ handled'.raised = "")
       /\ (handled'.event = "validationStatus" /\ handled'.payload = FALSE)
          => (/\ last' = NoCall
              /\ handled'.emitted = <<>>
              /\ handled'.raised = ""
              /\ UNCHANGED <<session, n_emitted>>)]_vars

\* C20 witness: a validationStatus event with value true found the
\* accumulator empty (finish_validation returned False) on a calibrated
\* session, and validationStatus was emitted in the phase TRACKING.
C20_Witness ==
    /\ handled.event = "validationStatus"
    /\ handled.payload = TRUE
    /\ last.op = "finish_validation"
    /\ last.ret = "False"
    /\ is_calibrated
    /\ state = TRACKING
    /\ handled.emitted = <<Emit("validationStatus", <<>>)>>

\* C21 as stated: with two clients connected, an event of one client never
\* changes the phase, the accumulators, the ensemble flags or the position
\* history that the other client's events observe.  (False: both clients'
\* handlers act on the one tracker of main.py.)
C21_AsStated ==
    [][\A client \in Clients :
           (handled'.event # "" /\ sid' # client)
           => SessionOf(client)' = SessionOf(client)]_vars

\* The centroid of a point is the mean of its three landmarks, on each axis.
C22_MeanCentroid(p) ==
    /\ p.centroid_x = (p.left_x + p.right_x + p.nose_x) \div 3
    /\ p.centroid_y = (p.left_y + p.right_y + p.nose_y) \div 3

\* C22 as stated: every CalibrationPoint, made by the constructor, by
\* from_dict from any dictionary or by add_calibration_point, has as its
\* centroid the mean of its three landmarks.  (False: the constructor keeps
\* a centroid it is given, and from_dict hands it the caller's centroidX
\* and centroidY.)
C22_AsStated ==
    /\ (last.ret = "CalibrationPoint") => C22_MeanCentroid(last.point)
    /\ \A i \in 1..Len(calibration_data) :
           C22_MeanCentroid(calibration_data[i])

\* The fields an inbound data event must carry
C23_RequiredKeys(event) ==
    CASE event = "calibrationDataOneByOneUpdate" -> CalibrationKeys
      [] event = "validationData" -> ValidationKeys
      [] event = "realTimeData" -> LandmarkKeys

\* The event just handled is a data event whose JSON payload lacks a
\* required field.
C23_MissingField ==
    /\ handled.event \in
          {"calibrationDataOneByOneUpdate", "validationData", "realTimeData"}
    /\ handled.payload.valid
    /\ ~HasKeys(handled.payload.value, C23_RequiredKeys(handled.event))

\* C23: a calibration point, validation point or realTimeData event that
\* lacks a required field is dropped, calibrated or not: the phase, the
\* ensemble flags, both accumulators and the position history are unchanged
\* and nothing is emitted.
C23_MissingFieldDropped ==
    [][C23_MissingField'
       => (/\ UNCHANGED <<session, n_emitted>>
           /\ handled'.emitted = <<>>)]_vars

\* C23 witness: a realTimeData event without noseX has been handled on a
\* calibrated session whose history holds points; track raised KeyError and
\* nothing was emitted.
C23_Witness ==
    /\ C23_MissingField
    /\ handled.event = "realTimeData"
    /\ is_calibrated
    /\ position_history # <<>>
    /\ last.op = "track"
    /\ last.ret = "KeyError"
    /\ handled.emitted = <<>>

\* C24 as stated: no handler lets an error escape; whatever the payload
\* (invalid JSON, a missing field) and whatever the session state, the
\* handler returns normally.  (False: handle_real_time_data does not catch
\* the KeyError of track.)
C24_AsStated ==
    [][(handled'.event # "") => (handled'.raised = "")]_vars

\* C25 as stated: track called while the phase is CALIBRATING returns no
\* point and leaves the position history unchanged, even on an ensemble
\* calibrated earlier.  (False: track never looks at the phase.)
C25_AsStated ==
    [][(last'.op = "track" /\ state = CALIBRATING)
       => (/\ last'.point = <<>>
           /\ position_history' = position_history)]_vars

\* C26 as stated: an add_calibration_point made while the phase is IDLE,
\* VALIDATING or TRACKING adds no sample to the calibration accumulator.
\* (False: add_calibration_point never looks at the phase.)
C26_AsStated ==
    [][(last'.op = "add_calibration_point" /\ state # CALIBRATING)
       => calibration_data' = calibration_data]_vars

\* C27 as stated: an add_validation_point made while the phase is IDLE,
\* CALIBRATING or TRACKING adds no sample to the validation accumulator,
\* even when the sample passes the proximity filter.  (False:
\* add_validation_point never looks at the phase.)
C27_AsStated ==
    [][(last'.op = "add_validation_point" /\ state # VALIDATING)
       => validation_data' = validation_data]_vars

\* C28: the phase changes only through the phase-control calls.
\* add_calibration_point, add_validation_point, track and
\* predict_for_validation leave it as it is; a step that changes it enters
\* CALIBRATING only by start_calibration, VALIDATING only by
\* start_validation or a finish_calibration that returned True, TRACKING
\* only by finish_validation, and IDLE only by reset.
C28_PhaseControl ==
    [][/\ (last'.op \in {"add_calibration_point", "add_validation_point",
                          "track", "predict_for_validation"})
          => state' = state
       /\ (state' # state /\ state' = CALIBRATING)
          => last'.op = "start_calibration"
       /\ (state' # state /\ state' = VALIDATING)
          => \/ last'.op = "start_validation"
             \/ last'.op = "finish_calibration" /\ last'.ret = "True"
       /\ (state' # state /\ state' = TRACKING)
          => last'.op = "finish_validation"
       /\ (state' # state /\ state' = IDLE)
          => last'.op = "reset"]_vars

\* C28 witness: a finish_calibration that returned True has entered the
\* phase VALIDATING.
C28_Witness ==
    /\ last.op = "finish_calibration"
    /\ last.ret = "True"
    /\ state = VALIDATING
    /\ is_calibrated

\* The sequence s is an initial part of the sequence t.
C29_IsPrefix(s, t) == Len(s) <= Len(t) /\ SubSeq(t, 1, Len(s)) = s

\* C29: the calibration accumulator loses samples only at a
\* finish_calibration that returned True, at start_calibration or at reset;
\* an add_calibration_point with all required fields appends exactly one
\* sample, made of its argument, after the samples already held, which keep
\* their order; a finish_calibration that returned False and every other
\* operation leave the accumulator as it is.
C29_CalibrationAccumulator ==
    [][/\ ~C29_IsPrefix(calibration_data, calibration_data')
          => \/ last'.op \in {"start_calibration", "reset"}
             \/ last'.op = "finish_calibration" /\ last'.ret = "True"
       /\ (last'.op = "add_calibration_point"
           /\ HasKeys(last'.arg, CalibrationKeys))
          => (/\ Len(calibration_data') = Len(calibration_data) + 1
              /\ C29_IsPrefix(calibration_data, calibration_data')
              /\ LET point == calibration_data'[Len(calibration_data')]
                 IN  /\ point.screen_x = last'.arg.screenX
                     /\ point.screen_y = last'.arg.screenY
                     /\ point.left_x = last'.arg.leftX
                     /\ point.left_y = last'.arg.leftY
                     /\ point.right_x = last'.arg.rightX
                     /\ point.right_y = last'.arg.rightY
                     /\ point.nose_x = last'.arg.noseX
                     /\ point.nose_y = last'.arg.noseY)
       /\ (last'.op \notin {"add_calibration_point", "start_calibration",
                             "finish_calibration", "reset"})
          => calibration_data' = calibration_data
       /\ (last'.op = "finish_calibration" /\ last'.ret # "True")
          => calibration_data' = calibration_data]_vars

\* C29 witness: an add_calibration_point has appended a sample that differs
\* from the one before it, which is still in its place.
C29_Witness ==
    /\ last.op = "add_calibration_point"
    /\ Len(calibration_data) >= 2
    /\ calibration_data[Len(calibration_data)].left_x = last.arg.leftX
    /\ calibration_data[Len(calibration_data)]
          # calibration_data[Len(calibration_data) - 1]

\* C30: the position history is the most recent min(10, k) points emitted
\* by track since construction or the last reset, in emission order, k
\* being the number of track calls that returned a point since then.  Kept
\* step by step: the history starts empty with k = 0; a track that returns
\* a point appends that very point (evicting the oldest of 10) and blends
\* with the point emitted last; reset empties the history; nothing else
\* touches it, so no point that was not emitted is ever stored.
C30_HistoryIsEmitted ==
    /\ [](Len(position_history) =
             IF n_emitted < max_history_points
             THEN n_emitted ELSE max_history_points)
    /\ [](\A i \in 1..Len(position_history) : position_history[i] # <<0, 0>>)
    /\ [][/\ (last'.op = "track" /\ last'.ret = "point")
             => (/\ n_emitted' = n_emitted + 1
                 /\ position_history' =
                        IF Len(position_history) < max_history_points
                        THEN position_history \o <<last'.point>>
                        ELSE SubSeq(position_history, 2, max_history_points)
                                \o <<last'.point>>
                 /\ position_history # <<>>
                    => LET prev == position_history[Len(position_history)]
                           current == predict(PupilData(last'.arg),
                                              HeadData(last'.arg)).point
                       IN  /\ 2 * last'.point[1] = prev[1] + current[1]
                           /\ 2 * last'.point[2] = prev[2] + current[2])
          /\ (last'.op = "reset")
             => (position_history' = <<>> /\ n_emitted' = 0)
          /\ ~(last'.op = "track" /\ last'.ret = "point")
             /\ last'.op # "reset"
             => UNCHANGED <<position_history, n_emitted>>]_vars

\* C30 witness: track has emitted eleven points since the history was last
\* empty, on a validated session; the history holds the last ten, the
\* newest being the point just returned and the oldest differing from it.
C30_Witness ==
    /\ last.op = "track"
    /\ last.ret = "point"
    /\ is_validated
    /\ n_emitted = max_history_points + 1
    /\ Len(position_history) = max_history_points
    /\ position_history[max_history_points] = last.point
    /\ position_history[1] # last.point

\* C31 as stated: in every reachable state is_validated implies
\* is_calibrated.  (False: add_validation_point and finish_validation never
\* look at is_calibrated.)
C31_AsStated == is_validated => is_calibrated

\* C32 as stated: in every reachable state the phase TRACKING implies
\* is_calibrated and the phase VALIDATING implies is_calibrated.  (False:
\* start_validation and finish_validation set the phase whatever the
\* ensemble.)
C32_AsStated == (state \in {VALIDATING, TRACKING}) => is_calibrated

\* C33 as stated: whenever a finish_calibration that returned True enters
\* the phase VALIDATING, the validation accumulator is empty.  (False:
\* finish_calibration leaves the validation accumulator as it is, and
\* add_validation_point fills it in any phase.)
C33_AsStated ==
    [][(last'.op = "finish_calibration" /\ last'.ret = "True")
       => validation_data' = <<>>]_vars

\* C34 as stated: after a successful re-calibration of a session that was
\* calibrated and validated, predict applies no validation correction until
\* a finish_validation trains one anew.  predict applies the correction
\* exactly when is_validated is true, so the re-calibration has to leave it
\* false.  (False: calibrate never assigns is_validated.)
C34_AsStated ==
    [][(/\ last'.op = "finish_calibration"
        /\ last'.ret = "True"
        /\ is_calibrated
        /\ is_validated)
       => (/\ ~is_validated'
           /\ \A data \in LandmarkInputs :
                  predict(PupilData(data), HeadData(data))'
                     = predict_raw(PupilData(data), HeadData(data))')]_vars

\* C35: a finish_calibration that returns False on a session calibrated
\* earlier leaves the ensemble untouched: is_calibrated stays true,
\* is_validated and the rest of the session are unchanged, predict and
\* predict_raw answer every input as they did before, and a track or
\* predict_for_validation on the calibrated session returns a point.
C35_FailedRecalibration ==
    [][/\ (/\ last'.op = "finish_calibration"
           /\ last'.ret = "False"
           /\ is_calibrated)
          => (/\ is_calibrated'
              /\ is_validated' = is_validated
              /\ UNCHANGED <<session, n_emitted>>
              /\ \A data \in LandmarkInputs \cup LandmarkInputsWide :
                     /\ predict(PupilData(data), HeadData(data))'
                           = predict(PupilData(data), HeadData(data))
                     /\ predict(PupilData(data), HeadData(data))'.raised = ""
                     /\ predict_raw(PupilData(data), HeadData(data))'
                           = predict_raw(PupilData(data), HeadData(data))
                     /\ predict_raw(PupilData(data),
                                    HeadData(data))'.raised = "")
       /\ (/\ last'.op \in {"track", "predict_for_validation"}
           /\ HasKeys(last'.arg, LandmarkKeys)
           /\ is_calibrated)
          => last'.ret = "point"]_vars

\* C35 witness: during a re-calibration (phase CALIBRATING, samples
\* accumulated) of a calibrated and validated session that has tracked,
\* finish_calibration has returned False.
C35_Witness ==
    /\ last.op = "finish_calibration"
    /\ last.ret = "False"
    /\ state = CALIBRATING
    /\ calibration_data # <<>>
    /\ is_calibrated
    /\ is_validated
    /\ position_history # <<>>

\* C36 as stated: in a session driven only by the inbound events, the
\* phase is CALIBRATING when it first becomes VALIDATING, and it is
\* CALIBRATING whenever a calibration point is accumulated before the first
\* successful calibrationStatus.  (False: no handler calls
\* start_calibration, so the points accumulate in IDLE and the phase goes
\* from IDLE to VALIDATING.)
C36_AsStated ==
    [][/\ (state # VALIDATING /\ state' = VALIDATING /\ ~is_calibrated)
          => state = CALIBRATING
       /\ (/\ handled'.event = "calibrationDataOneByOneUpdate"
           /\ calibration_data' # calibration_data
           /\ ~is_calibrated)
          => state' = CALIBRATING]_vars

====
